---- MODULE Spec2Model ----
(***************************************************************************)
(* A state-machine model of tune_transformer.py: the fine-tuning script of *)
(* LogFormer.  The script is one sequential thread of control; every       *)
(* action below is one statement (or one short run of statements) of the   *)
(* script, and pc is the position of that thread.                          *)
(*                                                                         *)
(* Abstractions.  Tensors are not modelled numerically:                    *)
(*   - a parameter value is a record [src, steps]: where the value came    *)
(*     from ("init" or "ckpt") and how many optimizer updates it received; *)
(*   - the loss and the gradient magnitude of a batch are integers that    *)
(*     are fixed functions of (seed, epoch, batch index), the seed being   *)
(*     an input of the run; the gradient magnitude is in tenths, so the    *)
(*     clipping threshold 0.5 is 5;                                        *)
(*   - a float quotient is kept exact, as a record [num, den];             *)
(*   - the predictions / labels of one training batch are one block,       *)
(*     named by the batch index; the rows of the test buffers are one per  *)
(*     test sample, <<epoch, sample>>.                                     *)
(***************************************************************************)
EXTENDS Integers, Sequences, FiniteSets

\* ------------------------------------------------------------------ bounds

MaxIntervals == 2
MaxExtra == 2
MaxEpochs == 2
MaxSeed == 1
MaxTest == 130
LossLevels == 3

\* ------------------------------------------------------- program constants

batch_size == 64
log_interval == 100
ClipMaxNorm == 5
start_epoch == -1

\* The keys of model.state_dict() once the model is wrapped in DataParallel.
HeadKeys == {"module.fc1.weight", "module.fc1.bias"}

AdapterKeys == {"module.adapter.weight"}

BackboneKeys == {"module.encoder.weight"}

ParamKeys == HeadKeys \cup AdapterKeys \cup BackboneKeys

\* A key a checkpoint may hold that the current model does not have.
ForeignKeys == {"module.fc2.weight"}

CkptKeys == ParamKeys \cup ForeignKeys

TuneModes == {"adapter", "classifier", "tuning", "other"}

\* A buffer name: not yet assigned (reading it is a NameError), or bound to rows.
Unbound == [bound |-> FALSE, rows |-> <<>>]

Bound(rows) == [bound |-> TRUE, rows |-> rows]

\* ------------------------------------------------------------------- state

VARIABLES
    pc,                \* position of the script
    args,              \* parsed command line: tune_mode, pretrained_log_name, epoch
    net,               \* checkpoint['net']: the set of keys it holds
    len_train_loader,  \* len(train_loader)
    n_test,            \* number of test samples
    seed,              \* selects the data, hence the losses and gradients
    file,              \* content of result/tune_<suffix>.txt, a sequence of writes
    params,            \* model parameters: key -> [src, steps]
    requires_grad,     \* key -> BOOLEAN
    built_grad,        \* requires_grad as Model(...) left it
    applied,           \* the trainability policies applied, in order
    r,                 \* result of load_state_dict: [missing_keys, unexpected_keys]
    epoch,
    batch_idx,
    steps,             \* the steps taken for the current training batch, in order
    grad_norm,         \* magnitude of the accumulated gradient, in tenths
    grad_from,         \* the batches whose backward pass contributed to the gradient
    opt_count,         \* optimizer.step() calls so far
    sched_count,       \* scheduler.step() calls so far
    train_loss,        \* [num, den]
    train_pred,
    train_true,
    loss_all,
    f1_all,
    test_idx,          \* batch index of the evaluation loop
    y_pred,
    y_true,
    eval_count         \* forward passes of the evaluation loop so far

vars == <<pc, args, net, len_train_loader, n_test, seed, file, params, requires_grad,
          built_grad, applied, r, epoch, batch_idx, steps, grad_norm, grad_from, opt_count,
          sched_count, train_loss, train_pred, train_true, loss_all, f1_all,
          test_idx, y_pred, y_true, eval_count>>

\* --------------------------------------------------------------- helpers

RECURSIVE SumSeq(_)
SumSeq(s) == IF s = <<>> THEN 0 ELSE Head(s) + SumSeq(Tail(s))

IsPrefix(s, t) == Len(s) <= Len(t) /\ SubSeq(t, 1, Len(s)) = s

Rat(n, d) == [num |-> n, den |-> d]

RatEq(a, b) == a.num * b.den = b.num * a.den

\* loss.item() of batch b of epoch e.
BatchLoss(sd, e, b) == ((sd + 1) * b + e) % LossLevels

\* Magnitude (tenths) of the gradient that loss.backward() adds for batch b.
BatchGrad(sd, e, b) == 3 * ((sd + b + e) % 4)

\* The samples of test batch k: DataLoader(batch_size=64, shuffle=False).
TestBatch(k) ==
    LET lo == k * batch_size
        hi == IF lo + batch_size < n_test THEN lo + batch_size ELSE n_test
    IN  [i \in 1..(hi - lo) |-> lo + i - 1]

NumTestBatches == (n_test + batch_size - 1) \div batch_size

\* argmax(axis=1) of the model output / the one-hot label of a test sample.
PredClass(e, s) == (s + e) % 2

TrueClass(s) == s % 2

InitParams == [k \in ParamKeys |-> [src |-> "init", steps |-> 0]]

\* ----------------------------------------------------------------- inputs

TrainSizes == {k * log_interval + j : k \in 0..MaxIntervals, j \in 0..MaxExtra}

DefaultNet == ParamKeys

\* Long training passes, default setup.
TrainRuns ==
    [tune_mode : {"adapter"}, pretrained_log_name : {"BGL_2k"}, epoch : 0..MaxEpochs,
     net : {DefaultNet}, B : TrainSizes, N : {1}, seed : 0..MaxSeed, old : {<<>>}]

\* Test sets of every size, short training passes.
EvalRuns ==
    [tune_mode : {"adapter"}, pretrained_log_name : {"BGL_2k"}, epoch : 1..MaxEpochs,
     net : {DefaultNet}, B : {1}, N : 0..MaxTest, seed : {0}, old : {<<>>}]

\* Every tuning mode and checkpoint, short passes, with and without an older file.
SetupRuns ==
    [tune_mode : TuneModes, pretrained_log_name : {"BGL_2k", "random"}, epoch : {1},
     net : SUBSET CkptKeys, B : {1, 2}, N : {1}, seed : {0},
     old : {<<>>, <<[kind |-> "old"]>>}]

Runs == TrainRuns \cup EvalRuns \cup SetupRuns

\* The runs checked for termination: at most one logging interval per epoch.
ShortRuns == {run \in Runs : run.B <= log_interval + MaxExtra}

InitOf(runs) ==
    \E run \in runs :
        /\ pc = "start"
        /\ args = [tune_mode |-> run.tune_mode,
                   pretrained_log_name |-> run.pretrained_log_name,
                   epoch |-> run.epoch]
        /\ net = run.net
        /\ len_train_loader = run.B
        /\ n_test = run.N
        /\ seed = run.seed
        /\ file = run.old
        /\ params = InitParams
        /\ requires_grad = [k \in ParamKeys |-> TRUE]
        /\ built_grad = [k \in ParamKeys |-> TRUE]
        /\ applied = <<>>
        /\ r = [missing_keys |-> {}, unexpected_keys |-> {}]
        /\ epoch = start_epoch
        /\ batch_idx = 0
        /\ steps = <<>>
        /\ grad_norm = 0
        /\ grad_from = {}
        /\ opt_count = 0
        /\ sched_count = 0
        /\ train_loss = Rat(0, 1)
        /\ train_pred = <<>>
        /\ train_true = <<>>
        /\ loss_all = <<>>
        /\ f1_all = <<>>
        /\ test_idx = 0
        /\ y_pred = Unbound
        /\ y_true = Unbound
        /\ eval_count = 0

Init == InitOf(Runs)

InitShort == InitOf(ShortRuns)

\* ------------------------------------------------------------ result file

\* open(path, 'w') followed by writes: the file holds the new entries only.
OpenWrite(old, entries) == entries

OpenAppendTruncating(old, entries) == entries

\* open(path, 'a') followed by writes: the new entries follow the old content.
OpenAppend(old, entries) == old \o entries

\* ------------------------------------------------------------------ setup

train_vars == <<epoch, batch_idx, steps, grad_norm, grad_from, opt_count, sched_count,
                train_loss, train_pred, train_true, loss_all, f1_all>>

eval_vars == <<test_idx, y_pred, y_true, eval_count>>

input_vars == <<args, net, len_train_loader, n_test, seed>>

\* Lines 36-40: parse the arguments, create the result file with the argument dump.
WriteArgs ==
    /\ pc = "start"
    /\ file' = OpenWrite(file, <<[kind |-> "args", args |-> args]>>)
    /\ pc' = "build_model"
    /\ UNCHANGED <<input_vars, params, requires_grad, built_grad, applied, r,
                   train_vars, eval_vars>>

\* model.train_adapter(): only the adapter parameters stay trainable.
train_adapter(flags) == [k \in ParamKeys |-> k \in AdapterKeys]

\* model.train_classifier(): only the output head stays trainable.
train_classifier(flags) == [k \in ParamKeys |-> k \in HeadKeys]

\* What Model(mode='adapter', ...) may leave: the framework's default (every
\* parameter trainable) or the adapter policy its mode argument names.
BuiltFlags == {[k \in ParamKeys |-> TRUE], train_adapter([k \in ParamKeys |-> TRUE])}

\* Lines 77-78.
BuildModel ==
    /\ pc = "build_model"
    /\ \E flags \in BuiltFlags :
        /\ requires_grad' = flags
        /\ built_grad' = flags
    /\ params' = InitParams
    /\ pc' = "tune_mode"
    /\ UNCHANGED <<input_vars, file, applied, r, train_vars, eval_vars>>

\* A chain that ends in an else branch: an unknown mode gets the adapter policy.
TuneModeDefaulting(mode, flags, done) ==
    IF mode = "classifier"
    THEN [flags |-> train_classifier(flags), applied |-> Append(done, "train_classifier")]
    ELSE IF mode = "tuning"
    THEN [flags |-> [k \in ParamKeys |-> TRUE], applied |-> Append(done, "all_trainable")]
    ELSE [flags |-> train_adapter(flags), applied |-> Append(done, "train_adapter")]

\* Lines 80-86: the if / elif / elif chain, which has no else branch.
TuneMode(mode, flags, done) ==
    IF mode = "adapter"
    THEN [flags |-> train_adapter(flags), applied |-> Append(done, "train_adapter")]
    ELSE IF mode = "classifier"
    THEN [flags |-> train_classifier(flags), applied |-> Append(done, "train_classifier")]
    ELSE IF mode = "tuning"
    THEN [flags |-> [k \in ParamKeys |-> TRUE], applied |-> Append(done, "all_trainable")]
    ELSE [flags |-> flags, applied |-> done]

\* Lines 80-89.
SelectTuneMode ==
    /\ pc = "tune_mode"
    /\ LET res == TuneMode(args.tune_mode, requires_grad, applied)
       IN  /\ requires_grad' = res.flags
           /\ applied' = res.applied
    /\ pc' = "load_checkpoint"
    /\ UNCHANGED <<input_vars, file, params, built_grad, r, train_vars, eval_vars>>

\* ------------------------------------------------------------- checkpoint

CkptValue == [src |-> "ckpt", steps |-> 0]

PopNothing(d, key) == d

\* dict.pop(key) on a dict that holds key.
Pop(d, key) == d \ {key}

\* Lines 95-96: the two head-layer entries are removed; a missing one is a KeyError.
PopHead(d) == Pop(Pop(d, "module.fc1.weight"), "module.fc1.bias")

\* model.load_state_dict(d, strict=False): entries naming a parameter overwrite it.
load_state_dict(p, d) == [k \in ParamKeys |-> IF k \in d THEN CkptValue ELSE p[k]]

LoadResult(d) == [missing_keys |-> ParamKeys \ d, unexpected_keys |-> d \ ParamKeys]

\* Lines 92-100.
LoadCheckpoint ==
    /\ pc = "load_checkpoint"
    /\ IF args.pretrained_log_name = "random"
       THEN /\ pc' = "build_optimizer"
            /\ UNCHANGED <<params, r, file>>
       ELSE IF ~ (HeadKeys \subseteq net)
       THEN /\ pc' = "crashed"
            /\ UNCHANGED <<params, r, file>>
       ELSE /\ params' = load_state_dict(params, PopHead(net))
            /\ r' = LoadResult(PopHead(net))
            /\ file' = OpenAppend(file, <<[kind |-> "loading"],
                                          [kind |-> "loading result", r |-> r']>>)
            /\ pc' = "build_optimizer"
    /\ UNCHANGED <<input_vars, requires_grad, built_grad, applied, train_vars, eval_vars>>

\* Lines 103-110: Adam, the one-cycle scheduler (which rejects a total of
\* epochs * len(train_loader) steps that is not positive), the loss.
BuildOptimizer ==
    /\ pc = "build_optimizer"
    /\ IF args.epoch <= 0 \/ len_train_loader <= 0
       THEN pc' = "crashed"
       ELSE pc' = "epoch_head"
    /\ UNCHANGED <<input_vars, file, params, requires_grad, built_grad, applied, r,
                   train_vars, eval_vars>>

\* ---------------------------------------------------------- training loop

setup_vars == <<file, params, requires_grad, built_grad, applied, r>>

InRangeInclusive(e, lo, hi) == lo <= e /\ e <= hi

\* e in range(lo, hi).
InRange(e, lo, hi) == lo <= e /\ e < hi

\* Lines 111-117: the head of the epoch loop and the per-epoch initialisation.
EpochHead ==
    /\ pc = "epoch_head"
    /\ IF InRange(epoch + 1, start_epoch + 1, args.epoch)
       THEN /\ epoch' = epoch + 1
            /\ loss_all' = <<>>
            /\ f1_all' = <<>>
            /\ train_loss' = Rat(0, 1)
            /\ train_pred' = <<>>
            /\ train_true' = <<>>
            /\ batch_idx' = 0
            /\ pc' = "train_head"
       ELSE /\ pc' = "done"
            /\ UNCHANGED <<epoch, loss_all, f1_all, train_loss, train_pred, train_true,
                           batch_idx>>
    /\ UNCHANGED <<input_vars, setup_vars, steps, grad_norm, grad_from, opt_count,
                   sched_count, eval_vars>>

\* Lines 118-122: take the next batch, if any, and run the forward pass.
\* batch_idx is the index of the batch in progress (len(train_loader) once the
\* loader is exhausted).
Forward ==
    /\ pc = "train_head"
    /\ IF batch_idx < len_train_loader
       THEN /\ steps' = Append(steps, "forward")
            /\ pc' = "loss"
       ELSE /\ pc' = "epoch_loss"
            /\ UNCHANGED steps
    /\ UNCHANGED <<input_vars, setup_vars, epoch, batch_idx, grad_norm, grad_from,
                   opt_count, sched_count, train_loss, train_pred, train_true, loss_all,
                   f1_all, eval_vars>>

\* Line 123.
Loss ==
    /\ pc = "loss"
    /\ steps' = Append(steps, "loss")
    /\ pc' = "zero_grad"
    /\ UNCHANGED <<input_vars, setup_vars, epoch, batch_idx, grad_norm, grad_from,
                   opt_count, sched_count, train_loss, train_pred, train_true, loss_all,
                   f1_all, eval_vars>>

ZeroGradOmitted(g) == g

\* optimizer.zero_grad() on the gradient state [norm, from].
zero_grad(g) == [norm |-> 0, from |-> {}]

\* Line 125.
ZeroGrad ==
    /\ pc = "zero_grad"
    /\ LET g == zero_grad([norm |-> grad_norm, from |-> grad_from])
       IN  /\ grad_norm' = g.norm
           /\ grad_from' = g.from
    /\ steps' = Append(steps, "zero_grad")
    /\ pc' = "backward"
    /\ UNCHANGED <<input_vars, setup_vars, epoch, batch_idx, opt_count, sched_count,
                   train_loss, train_pred, train_true, loss_all, f1_all, eval_vars>>

\* Line 126: loss.backward() adds this batch's gradient to the stored one.
Backward ==
    /\ pc = "backward"
    /\ grad_norm' = grad_norm + BatchGrad(seed, epoch, batch_idx)
    /\ grad_from' = grad_from \cup {<<epoch, batch_idx>>}
    /\ steps' = Append(steps, "backward")
    /\ pc' = "clip_grad"
    /\ UNCHANGED <<input_vars, setup_vars, epoch, batch_idx, opt_count, sched_count,
                   train_loss, train_pred, train_true, loss_all, f1_all, eval_vars>>

\* nn.utils.clip_grad_norm_: a norm above max_norm is scaled down to max_norm.
clip_grad_norm_(norm, max_norm) == IF norm > max_norm THEN max_norm ELSE norm

\* Line 127.
ClipGrad ==
    /\ pc = "clip_grad"
    /\ grad_norm' = clip_grad_norm_(grad_norm, ClipMaxNorm)
    /\ steps' = Append(steps, "clip_grad")
    /\ pc' = "optimizer_step"
    /\ UNCHANGED <<input_vars, setup_vars, epoch, batch_idx, grad_from, opt_count,
                   sched_count, train_loss, train_pred, train_true, loss_all, f1_all,
                   eval_vars>>

\* optimizer.step(): every trainable parameter that has a gradient is updated.
AdamStep(p, flags, from) ==
    [k \in ParamKeys |->
        IF flags[k] /\ from # {} THEN [p[k] EXCEPT !.steps = @ + 1] ELSE p[k]]

\* Line 128.
OptimizerStep ==
    /\ pc = "optimizer_step"
    /\ params' = AdamStep(params, requires_grad, grad_from)
    /\ opt_count' = opt_count + 1
    /\ steps' = Append(steps, "optimizer_step")
    /\ pc' = "scheduler_step"
    /\ UNCHANGED <<input_vars, file, requires_grad, built_grad, applied, r, epoch,
                   batch_idx, grad_norm, grad_from, sched_count, train_loss, train_pred,
                   train_true, loss_all, f1_all, eval_vars>>

\* Line 129.
SchedulerStep ==
    /\ pc = "scheduler_step"
    /\ sched_count' = sched_count + 1
    /\ steps' = Append(steps, "scheduler_step")
    /\ pc' = "accumulate"
    /\ UNCHANGED <<input_vars, setup_vars, epoch, batch_idx, grad_norm, grad_from,
                   opt_count, train_loss, train_pred, train_true, loss_all, f1_all,
                   eval_vars>>

\* Lines 131-133.
Accumulate ==
    /\ pc = "accumulate"
    /\ train_loss' = Rat(train_loss.num + BatchLoss(seed, epoch, batch_idx), 1)
    /\ train_pred' = Append(train_pred, batch_idx)
    /\ train_true' = Append(train_true, batch_idx)
    /\ pc' = "log_interval"
    /\ UNCHANGED <<input_vars, setup_vars, epoch, batch_idx, steps, grad_norm, grad_from,
                   opt_count, sched_count, loss_all, f1_all, eval_vars>>

LogsAtEveryMultiple(idx) == idx % log_interval = 0

\* Line 135: the condition of the interval logging.
IsLogPoint(idx) == idx % log_interval = 0 /\ idx > 0

\* f1_score(train_true, train_pred): recorded as the number of batch blocks scored.
f1_score(true, pred) == [blocks |-> Len(pred)]

\* Lines 135-156, then the step to the next batch.  Line 155 assigns train_acc,
\* a name nothing reads; train_pred and train_true are not assigned.
LogInterval ==
    /\ pc = "log_interval"
    /\ IF IsLogPoint(batch_idx)
       THEN LET cur_loss == Rat(train_loss.num, train_loss.den * log_interval)
                cur_f1 == f1_score(train_true, train_pred)
            IN  /\ file' = OpenAppend(file, <<[kind |-> "progress", epoch |-> epoch,
                                               batch_idx |-> batch_idx,
                                               loss |-> cur_loss, f1 |-> cur_f1]>>)
                /\ loss_all' = Append(loss_all, train_loss.num)
                /\ f1_all' = Append(f1_all, cur_f1)
                /\ train_loss' = Rat(0, 1)
       ELSE UNCHANGED <<file, loss_all, f1_all, train_loss>>
    /\ batch_idx' = batch_idx + 1
    /\ steps' = <<>>
    /\ pc' = "train_head"
    /\ UNCHANGED <<input_vars, params, requires_grad, built_grad, applied, r, epoch,
                   grad_norm, grad_from, opt_count, sched_count, train_pred, train_true,
                   eval_vars>>

EpochLossWithRest(all, rest, n) == Rat(SumSeq(all) + rest, n)

\* Line 158: sum(loss_all) / len(train_loader); rest is the running train_loss.
EpochLoss(all, rest, n) == Rat(SumSeq(all), n)

\* Lines 158-162.
EpochLossStep ==
    /\ pc = "epoch_loss"
    /\ train_loss' = EpochLoss(loss_all, train_loss.num, len_train_loader)
    /\ test_idx' = 0
    /\ pc' = "eval_head"
    /\ UNCHANGED <<input_vars, setup_vars, epoch, batch_idx, steps, grad_norm, grad_from,
                   opt_count, sched_count, train_pred, train_true, loss_all, f1_all,
                   y_pred, y_true, eval_count>>

\* -------------------------------------------------------- evaluation loop

\* model(x) on test batch k in epoch e: one output row per sample of the batch.
Outputs(e, k) == [i \in DOMAIN TestBatch(k) |-> <<e, TestBatch(k)[i]>>]

\* Lines 169-174: the first batch replaces the buffer, a later one is appended.
Concat(idx, buf, rows) == IF idx = 0 THEN Bound(rows) ELSE Bound(buf.rows \o rows)

\* An evaluation that takes an optimizer step on every test batch.
EvalBatchUpdating ==
    /\ pc = "eval_head"
    /\ IF test_idx < NumTestBatches
       THEN /\ y_pred' = Concat(test_idx, y_pred, Outputs(epoch, test_idx))
            /\ y_true' = Concat(test_idx, y_true, TestBatch(test_idx))
            /\ eval_count' = eval_count + 1
            /\ test_idx' = test_idx + 1
            /\ params' = AdamStep(params, requires_grad, grad_from)
            /\ pc' = "eval_head"
       ELSE /\ pc' = "metrics"
            /\ UNCHANGED <<eval_vars, params>>
    /\ UNCHANGED <<input_vars, file, requires_grad, built_grad, applied, r, train_vars>>

\* Lines 164-174: one test batch, or the end of the loop.
EvalBatch ==
    /\ pc = "eval_head"
    /\ IF test_idx < NumTestBatches
       THEN /\ y_pred' = Concat(test_idx, y_pred, Outputs(epoch, test_idx))
            /\ y_true' = Concat(test_idx, y_true, TestBatch(test_idx))
            /\ eval_count' = eval_count + 1
            /\ test_idx' = test_idx + 1
            /\ pc' = "eval_head"
       ELSE /\ pc' = "metrics"
            /\ UNCHANGED eval_vars
    /\ UNCHANGED <<input_vars, setup_vars, train_vars>>

\* np.argmax(y_true, axis=1): one class index per label row.
ArgMaxTrue(rows) == [i \in DOMAIN rows |-> TrueClass(rows[i])]

\* np.argmax(y_pred, axis=1): one class index per output row.
ArgMaxPred(rows) == [i \in DOMAIN rows |-> PredClass(rows[i][1], rows[i][2])]

\* Lines 177-179: arg-max of both buffers; a name never bound is a NameError.
Metrics ==
    /\ pc = "metrics"
    /\ IF ~ y_true.bound
       THEN /\ pc' = "crashed"
            /\ UNCHANGED <<y_true, y_pred>>
       ELSE /\ y_true' = Bound(ArgMaxTrue(y_true.rows))
            /\ y_pred' = Bound(ArgMaxPred(y_pred.rows))
            /\ pc' = "write_metrics"
    /\ UNCHANGED <<input_vars, setup_vars, train_vars, test_idx, eval_count>>

\* Lines 180-193: the per-epoch metrics block.
WriteMetrics ==
    /\ pc = "write_metrics"
    /\ file' = OpenAppend(file, <<[kind |-> "metrics", epoch |-> epoch,
                                   n_test |-> n_test, all_loss |-> loss_all]>>)
    /\ pc' = "epoch_head"
    /\ UNCHANGED <<input_vars, params, requires_grad, built_grad, applied, r,
                   train_vars, eval_vars>>

\* ---------------------------------------------------------- specification

Next ==
    \/ WriteArgs
    \/ BuildModel
    \/ SelectTuneMode
    \/ LoadCheckpoint
    \/ BuildOptimizer
    \/ EpochHead
    \/ Forward
    \/ Loss
    \/ ZeroGrad
    \/ Backward
    \/ ClipGrad
    \/ OptimizerStep
    \/ SchedulerStep
    \/ Accumulate
    \/ LogInterval
    \/ EpochLossStep
    \/ EvalBatch
    \/ Metrics
    \/ WriteMetrics

Spec == Init /\ [][Next]_vars

\* The script is one thread that runs every statement it reaches.
FairSpec == InitShort /\ [][Next]_vars /\ WF_vars(Next)

\* ------------------------------------------------------------ properties

StepOrder == <<"forward", "loss", "zero_grad", "backward", "clip_grad",
               "optimizer_step", "scheduler_step">>

\* Training batches finished before the batch in progress, over all epochs.
BatchesDone == epoch * len_train_loader + batch_idx

\* C1: in every training batch the steps run in the order forward, loss, zero
\* gradients, backpropagate, clip to 0.5, optimizer step, scheduler step, each
\* once per batch: the optimizer steps on a gradient that holds this batch's
\* backward pass only and is clipped, and the scheduler never runs ahead of it.
C1_BatchStepOrder ==
    /\ IsPrefix(steps, StepOrder)
    /\ (pc \in {"accumulate", "log_interval"} => steps = StepOrder)
    /\ (pc = "train_head" => steps = <<>>)
    /\ (epoch >= 0 =>
          /\ opt_count = BatchesDone + (IF Len(steps) >= 6 THEN 1 ELSE 0)
          /\ sched_count = BatchesDone + (IF Len(steps) >= 7 THEN 1 ELSE 0))
    /\ (Len(steps) >= 6 =>
          /\ grad_from = {<<epoch, batch_idx>>}
          /\ grad_norm <= ClipMaxNorm)

C1_Witness ==
    /\ pc = "accumulate"
    /\ epoch = 1
    /\ batch_idx = log_interval
    /\ steps = StepOrder

\* C2: right after the interval logging of a batch whose index is a positive
\* multiple of 100, the running loss, the running predictions and the running
\* true labels are all empty; so they are at the start of every epoch.
C2_AccumulatorsReset ==
    /\ (pc = "train_head" /\ batch_idx >= 1 /\ IsLogPoint(batch_idx - 1) =>
          /\ train_loss.num = 0
          /\ train_pred = <<>>
          /\ train_true = <<>>)
    /\ (pc = "train_head" /\ batch_idx = 0 =>
          /\ train_loss.num = 0
          /\ train_pred = <<>>
          /\ train_true = <<>>)

\* C3: the epoch-level training loss equals the sum of the entries of loss_all
\* divided by len(train_loader).
C3_EpochLoss ==
    pc \in {"eval_head", "metrics", "write_metrics"} =>
        /\ train_loss.den # 0
        /\ RatEq(train_loss, Rat(SumSeq(loss_all), len_train_loader))

C3_Witness ==
    /\ pc = "eval_head"
    /\ Len(loss_all) = 2
    /\ train_loss.num > 0
    /\ len_train_loader = 2 * log_interval + 1

\* C4: after the evaluation loop both buffers hold exactly one row per test
\* sample, row i being the i-th sample of this epoch's pass over the test loader.
C4_EvalBuffers ==
    pc = "metrics" =>
        /\ y_pred.bound /\ y_true.bound
        /\ Len(y_pred.rows) = n_test /\ Len(y_true.rows) = n_test
        /\ \A i \in 1..n_test :
              /\ y_pred.rows[i] = <<epoch, i - 1>>
              /\ y_true.rows[i] = i - 1

\* The same statement for a test set of at least one sample, where the first
\* batch binds both buffers anew in every epoch.
EvalBuffersOfNonEmptyTestSet == n_test >= 1 => C4_EvalBuffers

\* States after the checkpoint loading of lines 92-100.
Loaded == pc \notin {"start", "build_model", "tune_mode", "load_checkpoint", "crashed"}

\* C5: after loading a checkpoint that holds both head-layer keys, the head-layer
\* parameters and every parameter absent from the checkpoint have their
\* initialized values and every other parameter has the checkpoint's value.
C5_CheckpointLoad ==
    (pc = "build_optimizer" /\ args.pretrained_log_name # "random"
        /\ HeadKeys \subseteq net) =>
        \A k \in ParamKeys :
            /\ (k \in HeadKeys => params[k] = InitParams[k])
            /\ (k \in net \ HeadKeys => params[k] = CkptValue)
            /\ (k \notin net => params[k] = InitParams[k])

C5_Witness ==
    /\ pc = "build_optimizer"
    /\ args.pretrained_log_name # "random"
    /\ net = HeadKeys \cup AdapterKeys \cup ForeignKeys
    /\ params["module.adapter.weight"] = CkptValue

\* C6: at most one trainability policy is applied: the one the mode names when
\* the mode is "adapter", "classifier" or "tuning"; for any other mode none is
\* applied, the flags are those model construction left, and the mode selection
\* raises no error.
C6_TuneMode ==
    pc \notin {"start", "build_model", "tune_mode"} =>
        /\ Len(applied) <= 1
        /\ (args.tune_mode = "adapter" =>
              applied = <<"train_adapter">> /\ requires_grad = train_adapter(built_grad))
        /\ (args.tune_mode = "classifier" =>
              applied = <<"train_classifier">>
              /\ requires_grad = train_classifier(built_grad))
        /\ (args.tune_mode = "tuning" =>
              applied = <<"all_trainable">> /\ \A k \in ParamKeys : requires_grad[k])
        /\ (args.tune_mode \notin {"adapter", "classifier", "tuning"} =>
              /\ applied = <<>>
              /\ requires_grad = built_grad
              /\ (pc = "crashed" =>
                    args.pretrained_log_name # "random" /\ ~ (HeadKeys \subseteq net)))

C6_Witness ==
    /\ args.tune_mode = "other"
    /\ pc = "optimizer_step"
    /\ applied = <<>>
    /\ requires_grad = train_adapter(built_grad)

\* C7 as stated: every write leaves the earlier content of the result file in
\* place as a prefix, the content of an earlier run included.
C7_AppendOnly == [][IsPrefix(file, file')]_vars

\* C7 as amended: every write after the argument dump appends; the argument dump
\* itself replaces whatever the file held.
C7_AppendAfterStartup ==
    [][IF pc = "start"
       THEN file' = <<[kind |-> "args", args |-> args]>>
       ELSE IsPrefix(file, file')]_vars

IsMetrics(x) == x.kind = "metrics"

IsProgress(x) == x.kind = "progress"

C7_Witness ==
    /\ pc = "done"
    /\ file[2].kind = "loading"
    /\ Len(SelectSeq(file, IsProgress)) >= 2
    /\ Len(SelectSeq(file, IsMetrics)) >= 2

\* The epochs whose metrics block has been written.
EpochsFinished == IF pc \in {"epoch_head", "done"} THEN epoch + 1 ELSE epoch

\* The epoch numbers of the metrics blocks of the file, in file order.
MetricEpochs == [i \in DOMAIN SelectSeq(file, IsMetrics) |-> SelectSeq(file, IsMetrics)[i].epoch]

C8_Safety ==
    (n_test >= 1 /\ epoch >= 0) =>
        /\ MetricEpochs = [i \in 1..EpochsFinished |-> i - 1]
        /\ epoch < args.epoch
        /\ (pc = "write_metrics" =>
              /\ batch_idx = len_train_loader
              /\ opt_count = (epoch + 1) * len_train_loader
              /\ test_idx = NumTestBatches
              /\ eval_count = (epoch + 1) * NumTestBatches)
        /\ (pc = "done" => EpochsFinished = args.epoch)

C9_OnlyOptimizerWrites ==
    /\ [] (Loaded => \A k \in ParamKeys :
                        params[k].steps = IF requires_grad[k] THEN opt_count ELSE 0)
    /\ [][(Loaded /\ params' # params) => pc = "optimizer_step"]_vars

C9_Witness ==
    /\ pc = "train_head"
    /\ epoch = 1
    /\ batch_idx = 0
    /\ n_test > batch_size
    /\ params["module.adapter.weight"].steps = len_train_loader

\* The sum of the losses of the batches lo .. hi of epoch e.
RECURSIVE SumLoss(_, _, _, _)
SumLoss(sd, e, lo, hi) ==
    IF lo > hi THEN 0 ELSE BatchLoss(sd, e, hi) + SumLoss(sd, e, lo, hi - 1)

\* The last positive multiple of 100 below B (0 when there is none).
LastLogPoint == ((len_train_loader - 1) \div log_interval) * log_interval

ProgressLines(e) == {i \in DOMAIN file : file[i].kind = "progress" /\ file[i].epoch = e}

\* C10: at the end of the training pass of an epoch with B batches loss_all has
\* floor((B-1)/100) entries, the first the sum of the losses of batches 0..100,
\* the k-th the sum of those of batches 100(k-1)+1 .. 100k; the losses of the
\* batches above the last log point are in no entry; with B <= 100 loss_all is
\* empty, no progress line is written and the epoch-level training loss is 0.
C10_IntervalLosses ==
    /\ (pc = "epoch_loss" =>
          /\ Len(loss_all) = (len_train_loader - 1) \div log_interval
          /\ \A k \in DOMAIN loss_all :
                loss_all[k] = SumLoss(seed, epoch,
                                      IF k = 1 THEN 0 ELSE log_interval * (k - 1) + 1,
                                      log_interval * k)
          /\ train_loss.num = SumLoss(seed, epoch,
                                      IF LastLogPoint = 0 THEN 0 ELSE LastLogPoint + 1,
                                      len_train_loader - 1)
          /\ Cardinality(ProgressLines(epoch)) = Len(loss_all))
    /\ (pc = "eval_head" /\ len_train_loader <= log_interval =>
          /\ loss_all = <<>>
          /\ ProgressLines(epoch) = {}
          /\ train_loss.num = 0)

C10_Witness ==
    /\ pc = "epoch_loss"
    /\ len_train_loader = 2 * log_interval
    /\ Len(loss_all) = 1
    /\ train_loss.num > 0
    /\ loss_all[1] > 0

====
